---- MODULE Spec2Model ----
(***************************************************************************)
(* The client-side API governance layer of OSMO_DTF: the APIRateLimiter    *)
(* singleton (lib/api-rate-limiter) and the TokenMetadataCache singleton   *)
(* (lib/token-metadata-cache) that sits on top of it.                      *)
(*                                                                         *)
(* The runtime is a single-threaded event loop.  One action of the model   *)
(* is one macrotask: the synchronous stretch of a call up to its first     *)
(* suspension, the firing of one timer, or the settling of one network     *)
(* call together with every promise continuation (microtask) it releases.  *)
(* Time is Date.now() in milliseconds.                                     *)
(***************************************************************************)
EXTENDS Integers, Sequences, FiniteSets, TLC

VARIABLES
    now,                  \* Date.now()
    config,               \* APIRateLimiter.config (readonly)
    pendingRequests,      \* APIRateLimiter.pendingRequests : key -> PendingRequest
    requestHistory,       \* APIRateLimiter.requestHistory
    isCooldown,           \* APIRateLimiter.isCooldown
    cooldownTimeout,      \* APIRateLimiter.cooldownTimeout (handle of the last cooldown timer)
    timers,               \* the event loop's armed setTimeout timers, in arming order
    fetches,              \* every fetch() issued by executeRequest, in issue order
    reqs,                 \* every makeRequest invocation, in call order
    cache,                \* TokenMetadataCache.cache : lower-cased address -> CacheEntry
    pendingBatchRequests, \* TokenMetadataCache.pendingBatchRequests : key -> BatchRequest
    gets,                 \* every getTokenMetadata / getBatchTokenMetadata invocation
    advances,             \* number of clock advances taken so far
    observed              \* what the last getStatus / getCacheStats call returned

limiterVars == <<config, pendingRequests, requestHistory, isCooldown, cooldownTimeout,
                 timers, fetches, reqs>>
cacheVars == <<cache, pendingBatchRequests, gets>>
vars == <<now, limiterVars, cacheVars, advances, observed>>

-----------------------------------------------------------------------------
(* Bounds of the exploration *)

MaxRequests == 3      \* direct makeRequest calls (callers other than the cache)
MaxGets == 2          \* getTokenMetadata / getBatchTokenMetadata calls
MaxAdvances == 3      \* clock advances
MaxAddrs == 2         \* length of an address list passed to getBatchTokenMetadata
JoinGets == 3         \* cache calls of the scenario of concurrent calls
JoinAdvances == 1     \* clock advances of that scenario
StaleGets == 4        \* cache calls of the scenario of a stale batch
StaleAdvances == 2    \* clock advances of that scenario
ErrAdvances == 2      \* clock advances of the scenario of failing network calls
AuxGets == 3          \* cache calls of the scenario with searchTokens / preloadPopularTokens
AuxAdvances == 2      \* clock advances of that scenario
AdminAdvances == 1    \* clock advances of the scenario with reset / clearPendingRequests
StatGets == 2         \* cache calls of the scenario with getStatus / getCacheStats
StatAdvances == 2     \* clock advances of that scenario
CoolAdvances == 2     \* clock advances between timer deadlines of the cooldown scenario
LiveGets == 2         \* cache calls of the burst scenario
LiveCalls == 3        \* makeRequest invocations of that scenario, direct or through the cache

-----------------------------------------------------------------------------
(* Program constants *)

CACHE_DURATION == 10 * 60 * 1000
BATCH_TIMEOUT == 5 * 1000
windowMs == 60 * 1000
NoTimer == -1
NoFetch == 0

\* HTTP status of a network call: 200 for an ok response; NetworkError when
\* fetch() itself rejected and there is no response.
StatusOk == 200
NetworkError == 0

\* No error: the promise has not rejected.
NoError == [text |-> "", status |-> 0]

\* The Error of executeRequest without a message of its own for 403.
errorMessage_no403(status) ==
    CASE status = 401 -> [text |-> "CoinGecko API key is invalid or missing", status |-> 0]
      [] status = 429 -> [text |-> "CoinGecko API rate limit exceeded", status |-> 0]
      [] OTHER        -> [text |-> "API request failed", status |-> status]

\* executeRequest's Error for a response that is not ok: a message of its own
\* for 401, 429 and 403, and `API request failed: ${status} ...` otherwise.
errorMessage(status) ==
    CASE status = 401 -> [text |-> "CoinGecko API key is invalid or missing", status |-> 0]
      [] status = 429 -> [text |-> "CoinGecko API rate limit exceeded", status |-> 0]
      [] status = 403 -> [text |-> "CoinGecko API access forbidden", status |-> 0]
      [] OTHER        -> [text |-> "API request failed", status |-> status]

\* What the promise of executeRequest rejects with: fetch()'s own error when
\* there is no response, the Error above for a response that is not ok.
rejection(status) ==
    IF status = NetworkError THEN [text |-> "fetch failed", status |-> 0]
                             ELSE errorMessage(status)

\* getMaxRequests ignoring the credential.
getMaxRequests_flat(hasApiKey) == 30

getMaxRequests(hasApiKey) == IF hasApiKey THEN 100 ELSE 30
getCooldownMs(hasApiKey) == IF hasApiKey THEN 1000 ELSE 2000

\* The clock of the model moves in steps of the shortest duration of the program
\* (one second); every program constant is a multiple of it, so each comparison
\* of the code can fall on either side.
TickMs == getCooldownMs(TRUE)
Jumps == {TickMs, BATCH_TIMEOUT - TickMs, CACHE_DURATION - TickMs}

makeConfig(hasApiKey) ==
    [maxRequests |-> getMaxRequests(hasApiKey),
     windowMs    |-> windowMs,
     cooldownMs  |-> getCooldownMs(hasApiKey),
     hasApiKey   |-> hasApiKey]

-----------------------------------------------------------------------------
(* Inputs *)

\* Token addresses as strings; one of them has an upper-case digit.
Addresses == {"0xA", "0xb"}

\* String.prototype.toLowerCase on the addresses above.
toLowerCase(a) == IF a = "0xA" THEN "0xa" ELSE a

\* Array.prototype.sort's default order (UTF-16 code units): 'A' < 'a' < 'b'.
codeUnitRank(a) == CASE a = "0xA" -> 1 [] a = "0xa" -> 2 [] OTHER -> 3

AddressLists == UNION {[1..n -> Addresses] : n \in 0..MaxAddrs}

BatchUrl == "/api/tokens/batch-metadata"
PopularUrl == "/api/tokens/popular?limit=20"
\* searchTokens' url for the query "eth" and the default limit.
SearchUrl == "/api/tokens/search?query=eth&limit=20"
DirectUrls == {PopularUrl, SearchUrl}
\* RequestInit of a direct call: no options, or an explicit GET.
NoOptions == [method |-> "", body |-> <<>>]
DirectOptions == {NoOptions, [method |-> "GET", body |-> <<>>]}

-----------------------------------------------------------------------------
(* Maps *)

EmptyMap == [k \in {} |-> 0]
MapSet(m, k, v) == [x \in (DOMAIN m) \cup {k} |-> IF x = k THEN v ELSE m[x]]
MapDelete(m, k) == [x \in (DOMAIN m) \ {k} |-> m[x]]

Min(S) == CHOOSE x \in S : \A y \in S : x <= y

-----------------------------------------------------------------------------
(* APIRateLimiter *)

\* cleanupRequestHistory: keep the timestamps newer than now - windowMs.
cleanupRequestHistory(h) == SelectSeq(h, LAMBDA ts : ts > now - config.windowMs)

\* canMakeRequest admitting one request more than the cap.
canMakeRequest_inclusive ==
    IF isCooldown
      THEN FALSE
      ELSE Len(cleanupRequestHistory(requestHistory)) <= config.maxRequests

\* canMakeRequest: the value it returns ...
canMakeRequest ==
    IF isCooldown
      THEN FALSE
      ELSE Len(cleanupRequestHistory(requestHistory)) < config.maxRequests

\* ... and the history it leaves behind (it prunes only when not in cooldown).
historyAfterCanMakeRequest ==
    IF isCooldown THEN requestHistory ELSE cleanupRequestHistory(requestHistory)

\* clearTimeout that cancels nothing.
clearTimeout_none(tm, handle) == tm

\* clearTimeout(handle) on the timer list.
clearTimeout(tm, handle) ==
    IF handle = NoTimer
      THEN tm
      ELSE SelectSeq(tm, LAMBDA t : ~(t.kind = "cooldown" /\ t.deadline = handle))

\* recordRequest, on history h and timer list tm.
recordRequest(h, tm) ==
    /\ requestHistory' = Append(h, now)
    /\ isCooldown' = TRUE
    /\ timers' = Append(clearTimeout(tm, cooldownTimeout),
                        [kind |-> "cooldown", deadline |-> now + config.cooldownMs,
                         id |-> 0])
    /\ cooldownTimeout' = now + config.cooldownMs

\* generateRequestKey: `${method}:${url}:${body}`.
generateRequestKey(url, options) ==
    <<IF options.method = "" THEN "GET" ELSE options.method, url, options.body>>

\* executeRequest that issues the network call without recording it.
executeRequest_unrecorded(key, h, tm) ==
    /\ requestHistory' = h
    /\ timers' = tm
    /\ UNCHANGED <<isCooldown, cooldownTimeout>>
    /\ fetches' = Append(fetches, [key |-> key, status |-> "inflight",
                                   startedAt |-> now, resp |-> <<>>,
                                   code |-> NetworkError, error |-> NoError])

\* executeRequest up to its await of fetch(): the request is recorded and the
\* network call is issued.
executeRequest(key, h, tm) ==
    /\ recordRequest(h, tm)
    /\ fetches' = Append(fetches, [key |-> key, status |-> "inflight",
                                   startedAt |-> now, resp |-> <<>>,
                                   code |-> NetworkError, error |-> NoError])

Unsettled == {r \in DOMAIN reqs : reqs[r].phase # "done"}

InWindow(h, t) == Cardinality({i \in DOMAIN h : h[i] > t - config.windowMs})

\* What every makeRequest invocation logs about itself: the limiter's state
\* at the time of the call.
reqBase(key, owner) ==
    [key |-> key, owner |-> owner, at |-> now, ok |-> FALSE, error |-> NoError,
     live |-> Unsettled,
     cool |-> isCooldown,
     full |-> InWindow(requestHistory, now) >= config.maxRequests,
     idle |-> /\ ~isCooldown
              /\ InWindow(requestHistory, now) < config.maxRequests
              /\ Unsettled = {}
              /\ DOMAIN pendingRequests = {}]

reusePending_counted(key, owner) ==
    /\ reqs' = Append(reqs, reqBase(key, owner) @@
                   [phase |-> "awaiting", joined |-> TRUE, waited |-> FALSE,
                    promise |-> pendingRequests[key].promise])
    /\ recordRequest(requestHistory, timers)
    /\ UNCHANGED <<fetches, pendingRequests>>

\* makeRequest returning a promise of its own that nothing settles.
reusePending_lost(key, owner) ==
    /\ reqs' = Append(reqs, reqBase(key, owner) @@
                   [phase |-> "awaiting", joined |-> TRUE, waited |-> FALSE,
                    promise |-> NoFetch])
    /\ UNCHANGED <<requestHistory, isCooldown, cooldownTimeout, timers,
                   fetches, pendingRequests>>

\* makeRequest, a request with this key is pending: return its promise.
reusePending(key, owner) ==
    /\ reqs' = Append(reqs, reqBase(key, owner) @@
                   [phase |-> "awaiting", joined |-> TRUE, waited |-> FALSE,
                    promise |-> pendingRequests[key].promise])
    /\ UNCHANGED <<requestHistory, isCooldown, cooldownTimeout, timers,
                   fetches, pendingRequests>>

waitTime_short == config.cooldownMs - TickMs

\* The wait of a call that is not admitted.
waitTime == config.cooldownMs

\* makeRequest up to its first suspension.
makeRequest(url, options, owner) ==
    LET key == generateRequestKey(url, options)
        f == Len(fetches) + 1
        base == reqBase(key, owner)
    IN  IF key \in DOMAIN pendingRequests
          THEN reusePending(key, owner)
          ELSE IF ~canMakeRequest
          THEN \* rate limit exceeded: sleep for waitTime
               /\ reqs' = Append(reqs, base @@
                              [phase |-> "waiting", joined |-> FALSE, waited |-> TRUE,
                               promise |-> NoFetch])
               /\ requestHistory' = historyAfterCanMakeRequest
               /\ timers' = Append(timers, [kind |-> "wait", deadline |-> now + waitTime,
                                            id |-> Len(reqs) + 1])
               /\ UNCHANGED <<isCooldown, cooldownTimeout, fetches, pendingRequests>>
          ELSE \* admitted at once
               /\ executeRequest(key, historyAfterCanMakeRequest, timers)
               /\ pendingRequests' = MapSet(pendingRequests, key,
                                            [promise |-> f, timestamp |-> now])
               /\ reqs' = Append(reqs, base @@
                              [phase |-> "awaiting", joined |-> FALSE, waited |-> FALSE,
                               promise |-> f])

\* getStatus with the history cleared instead of pruned.
getStatus_clearing ==
    /\ requestHistory' = <<>>
    /\ observed' = [kind |-> "status",
                    canMakeRequest |-> ~isCooldown,
                    requestsInWindow |-> 0,
                    maxRequests |-> config.maxRequests,
                    isCooldown |-> isCooldown,
                    pendingRequests |-> Cardinality(DOMAIN pendingRequests),
                    hasCoinGeckoAPIKey |-> config.hasApiKey]
    /\ UNCHANGED <<config, pendingRequests, isCooldown, cooldownTimeout, timers,
                   fetches, reqs>>

\* getStatus: prune the history, then report (canMakeRequest prunes again,
\* which changes nothing).
getStatus ==
    LET h == cleanupRequestHistory(requestHistory)
    IN  /\ requestHistory' = h
        /\ observed' = [kind |-> "status",
                        canMakeRequest |-> ~isCooldown /\ Len(h) < config.maxRequests,
                        requestsInWindow |-> Len(h),
                        maxRequests |-> config.maxRequests,
                        isCooldown |-> isCooldown,
                        pendingRequests |-> Cardinality(DOMAIN pendingRequests),
                        hasCoinGeckoAPIKey |-> config.hasApiKey]
        /\ UNCHANGED <<config, pendingRequests, isCooldown, cooldownTimeout, timers,
                       fetches, reqs>>

\* clearPendingRequests
clearPendingRequests ==
    /\ pendingRequests' = EmptyMap
    /\ UNCHANGED <<config, requestHistory, isCooldown, cooldownTimeout, timers,
                   fetches, reqs>>

\* reset
reset ==
    /\ requestHistory' = <<>>
    /\ pendingRequests' = EmptyMap
    /\ isCooldown' = FALSE
    /\ timers' = clearTimeout(timers, cooldownTimeout)
    /\ cooldownTimeout' = NoTimer
    /\ UNCHANGED <<config, fetches, reqs>>

\* The timer the event loop runs next: the earliest deadline, first armed first.
NextTimer ==
    CHOOSE i \in DOMAIN timers :
        /\ \A j \in DOMAIN timers : timers[i].deadline <= timers[j].deadline
        /\ \A j \in 1..(i - 1) : timers[j].deadline > timers[i].deadline

RemoveAt(s, i) == SubSeq(s, 1, i - 1) \o SubSeq(s, i + 1, Len(s))

-----------------------------------------------------------------------------
(* TokenMetadataCache *)

\* A TokenMetadata record of the provider: the address it is about and the
\* network call it came from (which stands for all its data fields).
Token(a, f) == [address |-> a, ver |-> f]

\* The validity test with the expiry instant itself still counted as valid.
isCacheValid_inclusive(entry) == now <= entry.expiresAt

isCacheValid(entry) == now < entry.expiresAt

\* cleanupExpiredEntries: drop the entries with now > expiresAt.
cleanupExpiredEntries(c) ==
    [k \in {x \in DOMAIN c : ~(now > c[x].expiresAt)} |-> c[k]]

\* Array.prototype.sort on an address list (insertion into the sorted rest).
RECURSIVE sort(_)
sort(s) ==
    IF s = <<>> THEN <<>>
    ELSE LET rest == sort(Tail(s))
             x == Head(s)
             below == SelectSeq(rest, LAMBDA y : codeUnitRank(y) <= codeUnitRank(x))
             above == SelectSeq(rest, LAMBDA y : codeUnitRank(y) > codeUnitRank(x))
         IN  below \o <<x>> \o above

\* generateBatchKey: addresses.sort().join(',').  The joined string of a sorted
\* list of comma-free addresses is the sorted list itself.
generateBatchKey(addresses) == sort(addresses)

\* cacheToken with the address used as the key as it came.
cacheToken_rawKey(c, token) ==
    MapSet(c, token.address,
           [data |-> token, timestamp |-> now, expiresAt |-> now + CACHE_DURATION])

\* cacheToken with an expiry that does not follow the write time.
cacheToken_fixedExpiry(c, token) ==
    MapSet(c, toLowerCase(token.address),
           [data |-> token, timestamp |-> now, expiresAt |-> CACHE_DURATION])

\* cacheToken
cacheToken(c, token) ==
    MapSet(c, toLowerCase(token.address),
           [data |-> token, timestamp |-> now, expiresAt |-> now + CACHE_DURATION])

RECURSIVE cacheTokens(_, _)
cacheTokens(c, tokens) ==
    IF tokens = <<>> THEN c ELSE cacheTokens(cacheToken(c, Head(tokens)), Tail(tokens))

\* The partition loop of getBatchTokenMetadata.
cacheHit(address) ==
    /\ toLowerCase(address) \in DOMAIN cache
    /\ isCacheValid(cache[toLowerCase(address)])

uncachedAddresses(addresses) == SelectSeq(addresses, LAMBDA a : ~cacheHit(a))

cachedResults(addresses) ==
    LET hits == SelectSeq(addresses, cacheHit)
    IN  [i \in 1..Len(hits) |-> cache[toLowerCase(hits[i])].data]

\* Nothing has been returned by getStatus or getCacheStats yet.
NotObserved == [kind |-> "none"]

\* No record (a lookup that found no entry).
NoToken == [address |-> "", ver |-> 0]

\* What a cache lookup saw for each address: the entry found (its write time
\* and record, or -1 and no record) and whether it was taken as a hit.
lookups(addresses) ==
    [i \in 1..Len(addresses) |->
        LET k == toLowerCase(addresses[i])
        IN  [address |-> addresses[i],
             written |-> IF k \in DOMAIN cache THEN cache[k].timestamp ELSE -1,
             data    |-> IF k \in DOMAIN cache THEN cache[k].data ELSE NoToken,
             hit     |-> cacheHit(addresses[i])]]

\* The records that are in the cache and not expired for a list of addresses.
ValidRecords(addresses) ==
    {cache[toLowerCase(addresses[i])].data :
        i \in {j \in DOMAIN addresses :
                  /\ toLowerCase(addresses[j]) \in DOMAIN cache
                  /\ now < cache[toLowerCase(addresses[j])].expiresAt}}

UnsettledGets == {g \in DOMAIN gets : gets[g].phase # "done"}

\* The body fetchBatchFromAPI posts: JSON.stringify({ addresses }).
batchOptions(addresses) == [method |-> "POST", body |-> addresses]

\* What every cache invocation logs about itself.
getBase(op, addresses) ==
    [op |-> op, addrs |-> addresses, at |-> now,
     live |-> UnsettledGets, valid |-> ValidRecords(addresses)]

\* getTokenMetadata's return with the length test off by one.
finish_strict(op, result) ==
    IF op = "single"
      THEN IF Len(result) > 1 THEN <<result[1]>> ELSE <<>>
      ELSE result

\* getTokenMetadata's return: result.length > 0 ? result[0] : null
\* (a list of at most one record stands for record-or-null).
finish(op, result) ==
    IF op = "single" /\ Len(result) > 0 THEN <<result[1]>> ELSE result

\* The empty list posted to the provider like any other list.
emptyResult_posted(op) ==
    /\ makeRequest(BatchUrl, batchOptions(<<>>), Len(gets) + 1)
    /\ gets' = Append(gets, getBase(op, <<>>) @@
                   [key |-> <<>>, role |-> "create", phase |-> "awaiting",
                    batch |-> Len(gets) + 1, cached |-> <<>>, looks |-> <<>>,
                    sent |-> <<>>, result |-> <<>>])
    /\ UNCHANGED <<cache, pendingBatchRequests>>

\* getBatchTokenMetadata, addresses.length === 0: return [].
emptyResult(op) ==
    /\ gets' = Append(gets, getBase(op, <<>>) @@
                   [key |-> <<>>, role |-> "empty", phase |-> "done", batch |-> 0,
                    cached |-> <<>>, looks |-> <<>>, sent |-> <<>>, result |-> <<>>])
    /\ UNCHANGED <<limiterVars, cache, pendingBatchRequests>>

\* getBatchTokenMetadata up to its first suspension (seen: the lookups its
\* caller getTokenMetadata made before delegating).
getBatchTokenMetadata(op, addresses, seen) ==
    LET g == Len(gets) + 1
        base == getBase(op, addresses)
        sorted == sort(addresses)          \* sort() sorts the caller's array in place
        batchKey == generateBatchKey(addresses)
        uncached == uncachedAddresses(sorted)
        cached == cachedResults(sorted)
        settled(role, result) ==
            base @@ [key |-> batchKey, role |-> role, phase |-> "done", batch |-> 0,
                     cached |-> <<>>, looks |-> <<>>, sent |-> <<>>,
                     result |-> finish(op, result)]
    IN  IF addresses = <<>>
          THEN emptyResult(op)
          ELSE IF /\ batchKey \in DOMAIN pendingBatchRequests
                  /\ now - pendingBatchRequests[batchKey].timestamp < BATCH_TIMEOUT
          THEN \* reuse the pending batch request
               /\ gets' = Append(gets, base @@
                              [key |-> batchKey, role |-> "join", phase |-> "awaiting",
                               batch |-> pendingBatchRequests[batchKey].promise,
                               cached |-> <<>>, looks |-> seen, sent |-> <<>>,
                               result |-> <<>>])
               /\ UNCHANGED <<limiterVars, cache, pendingBatchRequests>>
          ELSE IF uncached = <<>>
          THEN \* all tokens found in cache
               /\ gets' = Append(gets, [settled("cached", cached)
                                           EXCEPT !.looks = lookups(sorted),
                                                  !.cached = cached])
               /\ UNCHANGED <<limiterVars, cache, pendingBatchRequests>>
          ELSE \* fetchBatchFromAPI(uncachedAddresses), then store the batch
               /\ makeRequest(BatchUrl, batchOptions(uncached), g)
               /\ pendingBatchRequests' =
                      MapSet(pendingBatchRequests, batchKey,
                             [addresses |-> uncached, promise |-> g, timestamp |-> now])
               /\ gets' = Append(gets, base @@
                              [key |-> batchKey, role |-> "create", phase |-> "awaiting",
                               batch |-> g, cached |-> cached, looks |-> lookups(sorted),
                               sent |-> uncached, result |-> <<>>])
               /\ UNCHANGED cache

\* getTokenMetadata up to its first suspension.
getTokenMetadata(address) ==
    LET cacheKey == toLowerCase(address)
    IN  IF cacheKey \in DOMAIN cache /\ isCacheValid(cache[cacheKey])
          THEN /\ gets' = Append(gets, getBase("single", <<address>>) @@
                              [key |-> <<address>>, role |-> "hit", phase |-> "done",
                               batch |-> 0, cached |-> <<cache[cacheKey].data>>,
                               looks |-> lookups(<<address>>), sent |-> <<>>,
                               result |-> <<cache[cacheKey].data>>])
               /\ UNCHANGED <<limiterVars, cache, pendingBatchRequests>>
          ELSE getBatchTokenMetadata("single", <<address>>, lookups(<<address>>))

\* searchTokens / preloadPopularTokens up to the await of their
\* makeRateLimitedRequest call (no options are passed).
auxCall(op, url) ==
    LET g == Len(gets) + 1
    IN  /\ makeRequest(url, NoOptions, g)
        /\ gets' = Append(gets, getBase(op, <<>>) @@
                       [key |-> <<>>, role |-> "aux", phase |-> "awaiting", batch |-> g,
                        cached |-> <<>>, looks |-> <<>>, sent |-> <<>>, result |-> <<>>])
        /\ UNCHANGED <<cache, pendingBatchRequests>>

searchTokens == auxCall("search", SearchUrl)

preloadPopularTokens == auxCall("preload", PopularUrl)

\* getCacheStats
getCacheStats ==
    LET valid == {k \in DOMAIN cache : now < cache[k].expiresAt}
    IN  observed' = [kind |-> "stats",
                     totalEntries |-> Cardinality(DOMAIN cache),
                     validEntries |-> Cardinality(valid),
                     expiredEntries |-> Cardinality(DOMAIN cache \ valid),
                     pendingBatches |-> Cardinality(DOMAIN pendingBatchRequests)]

-----------------------------------------------------------------------------
(* Initial states *)

\* A history the limiter builds by itself: one request at time 0, then
\* maxRequests - 2 requests with other signatures that arrived during its
\* cooldown, slept for cooldownMs and ran together at time cooldownMs.
BurstHistory(cfg) ==
    [i \in 1..(cfg.maxRequests - 1) |-> IF i = 1 THEN 0 ELSE cfg.cooldownMs]

InitWith(busyStates) ==
    /\ \E hasApiKey \in BOOLEAN, busy \in busyStates :
         /\ config = makeConfig(hasApiKey)
         /\ requestHistory = IF busy THEN BurstHistory(config) ELSE <<>>
         /\ now = IF busy THEN 2 * config.cooldownMs ELSE 0
         /\ cooldownTimeout = IF busy THEN 2 * config.cooldownMs ELSE NoTimer
    /\ pendingRequests = EmptyMap
    /\ isCooldown = FALSE
    /\ timers = <<>>
    /\ fetches = <<>>
    /\ reqs = <<>>
    /\ cache = EmptyMap
    /\ pendingBatchRequests = EmptyMap
    /\ gets = <<>>
    /\ advances = 0
    /\ observed = NotObserved

\* The state right after construction, with or without a credential.
Init == InitWith({FALSE})

\* Either that state, or the state one cooldown after the burst above, once its
\* calls have settled and its cooldown has expired.
InitLimiter == InitWith({FALSE, TRUE})

-----------------------------------------------------------------------------
(* Actions *)

\* A caller other than the cache calls makeRateLimitedRequest.
Request(url, options) ==
    /\ Cardinality({r \in DOMAIN reqs : reqs[r].owner = 0}) < MaxRequests
    /\ makeRequest(url, options, 0)
    /\ UNCHANGED <<now, config, cacheVars, advances, observed>>

\* A caller calls getBatchTokenMetadata.
GetBatch(addresses, limit) ==
    /\ Len(gets) < limit
    /\ getBatchTokenMetadata("batch", addresses, <<>>)
    /\ UNCHANGED <<now, config, advances, observed>>

\* A caller calls getTokenMetadata.
GetSingle(address, limit) ==
    /\ Len(gets) < limit
    /\ getTokenMetadata(address)
    /\ UNCHANGED <<now, config, advances, observed>>

\* The cooldown timer of recordRequest fires.
CooldownExpires ==
    /\ timers # <<>>
    /\ timers[NextTimer].deadline <= now
    /\ timers[NextTimer].kind = "cooldown"
    /\ isCooldown' = FALSE
    /\ timers' = RemoveAt(timers, NextTimer)
    /\ UNCHANGED <<now, config, pendingRequests, requestHistory, cooldownTimeout,
                   fetches, reqs, cacheVars, advances, observed>>

\* The sleep of a call that was not admitted ends: makeRequest goes on to
\* executeRequest and stores the pending request.
Resume ==
    /\ timers # <<>>
    /\ timers[NextTimer].deadline <= now
    /\ timers[NextTimer].kind = "wait"
    /\ LET r == timers[NextTimer].id
           f == Len(fetches) + 1
       IN  /\ executeRequest(reqs[r].key, requestHistory, RemoveAt(timers, NextTimer))
           /\ pendingRequests' = MapSet(pendingRequests, reqs[r].key,
                                        [promise |-> f, timestamp |-> now])
           /\ reqs' = [reqs EXCEPT ![r].phase = "awaiting", ![r].promise = f]
    /\ UNCHANGED <<now, config, cacheVars, advances, observed>>

\* The batch-metadata route's answer to a posted address list: a record for
\* every address (looked up or a fallback), in the posted order, or no record
\* at all when none of the addresses has a mapping.
tokensFor(body, f) == [i \in 1..Len(body) |-> Token(body[i], f)]

\* The popular and search routes answer with the tokens they found, if any.
catalogue(f) == <<Token("0xA", f), Token("0xb", f)>>

Responses(f) ==
    IF fetches[f].key[2] = BatchUrl
      THEN {tokensFor(fetches[f].key[3], f), <<>>}
      ELSE {catalogue(f), <<>>}

\* fetchBatchFromAPI's value once its makeRateLimitedRequest call has settled:
\* response.tokens || [], or [] when the call threw.
fetchBatchFromAPI(ok, resp) == IF ok THEN resp ELSE <<>>

\* A finally block that deletes nothing.
requestFinally_kept(pending, key) == pending

\* The pending request makeRequest's finally block leaves behind.
requestFinally(pending, key) == MapDelete(pending, key)

\* Finally blocks that delete nothing.
batchFinally_kept(pending, G) == pending

\* The pending batches left once the finally blocks of the creators in G ran.
batchFinally(pending, G) ==
    [k \in (DOMAIN pending) \ {gets[g].key : g \in G} |-> pending[k]]

\* The shape of a route's JSON answer: { tokens: [...] } from batch-metadata,
\* a bare array from popular and from search.
responseShape(url) == IF url = BatchUrl THEN "object" ELSE "array"

\* response.tokens || [] on an answer of that shape.
tokensField(url, resp) == IF responseShape(url) = "object" THEN resp ELSE <<>>

\* The records preloadPopularTokens / searchTokens pass to cacheToken once
\* their makeRateLimitedRequest call has settled: preloadPopularTokens reads
\* response.tokens || [], searchTokens iterates the response itself; neither
\* caches anything when the call threw.
auxTokens(op, url, ok, resp) ==
    IF ~ok THEN <<>>
    ELSE IF op = "preload" THEN tokensField(url, resp)
    ELSE resp

\* What the auxiliary call returns: searchTokens the response (or [] when the
\* call threw), preloadPopularTokens nothing.
auxResult(op, ok, resp) == IF op = "search" /\ ok THEN resp ELSE <<>>

\* The network call f settles with an HTTP status (StatusOk with the answer
\* resp; another status, or NetworkError when fetch() rejected), and every
\* continuation waiting for it runs: makeRequest's finally, the joined
\* makeRequest calls, fetchBatchFromAPI and the rest of getBatchTokenMetadata
\* of every batch created on it, the calls that joined those batches, and
\* the rest of searchTokens / preloadPopularTokens.
SettleAs(f, status, resp) ==
    LET key == fetches[f].key
        ok == status = StatusOk
        R == {r \in DOMAIN reqs : reqs[r].promise = f /\ reqs[r].phase = "awaiting"}
        owners == {reqs[r].owner : r \in R} \ {0}
        G == {g \in owners : gets[g].role = "create"}
        A == {g \in owners : gets[g].role = "aux"}
        apiResults == fetchBatchFromAPI(ok, resp)
        afterBatches == IF G = {} THEN cache ELSE cacheTokens(cache, apiResults)
        auxOp == gets[CHOOSE g \in A : TRUE].op
    IN  /\ fetches[f].status = "inflight"
        /\ fetches' = [fetches EXCEPT ![f].status = IF ok THEN "ok" ELSE "err",
                                      ![f].resp = IF ok THEN resp ELSE <<>>,
                                      ![f].code = status,
                                      ![f].error = IF ok THEN NoError ELSE rejection(status)]
        /\ reqs' = [r \in DOMAIN reqs |->
                       IF r \in R
                         THEN [reqs[r] EXCEPT !.phase = "done", !.ok = ok,
                                  !.error = IF ok THEN NoError ELSE rejection(status)]
                         ELSE reqs[r]]
        /\ pendingRequests' = requestFinally(pendingRequests, key)
        /\ cache' = IF A = {} THEN afterBatches
                    ELSE cacheTokens(afterBatches, auxTokens(auxOp, key[2], ok, resp))
        /\ pendingBatchRequests' = batchFinally(pendingBatchRequests, G)
        /\ gets' = [g \in DOMAIN gets |->
                       IF g \in G
                         THEN [gets[g] EXCEPT
                                  !.phase = "done",
                                  !.result = finish(gets[g].op, gets[g].cached \o apiResults)]
                       ELSE IF g \in A
                         THEN [gets[g] EXCEPT
                                  !.phase = "done",
                                  !.result = auxResult(gets[g].op, ok, resp)]
                       ELSE IF /\ gets[g].phase = "awaiting"
                               /\ gets[g].role = "join"
                               /\ gets[g].batch \in G
                         THEN [gets[g] EXCEPT
                                  !.phase = "done",
                                  !.result = finish(gets[g].op, apiResults)]
                       ELSE gets[g]]
        /\ UNCHANGED <<now, config, requestHistory, isCooldown, cooldownTimeout,
                       timers, advances, observed>>

\* The network call settles with a 2xx answer (ok), or fails with a network
\* error.
Settle(f, ok, resp) == SettleAs(f, IF ok THEN StatusOk ELSE NetworkError, resp)

FetchSucceeds == \E f \in DOMAIN fetches : \E resp \in Responses(f) : Settle(f, TRUE, resp)

FetchFails == \E f \in DOMAIN fetches : Settle(f, FALSE, <<>>)

\* The limiter's setInterval sweep of the request history.
SweepHistory ==
    /\ requestHistory' = cleanupRequestHistory(requestHistory)
    /\ requestHistory' # requestHistory
    /\ UNCHANGED <<now, config, pendingRequests, isCooldown, cooldownTimeout, timers,
                   fetches, reqs, cacheVars, advances, observed>>

\* The cache's setInterval sweep of expired entries.
SweepCache ==
    /\ cache' = cleanupExpiredEntries(cache)
    /\ cache' # cache
    /\ UNCHANGED <<now, limiterVars, pendingBatchRequests, gets, advances, observed>>

\* Time passes: by d, or up to the next timer deadline if that comes first.
\* Timers that are due run before the clock moves on.
Advance(d, limit) ==
    /\ advances < limit
    /\ \A i \in DOMAIN timers : timers[i].deadline > now
    /\ now' = Min({now + d} \cup {timers[i].deadline : i \in DOMAIN timers})
    /\ advances' = advances + 1
    /\ UNCHANGED <<limiterVars, cacheVars, observed>>

\* The whole stack, driven through the cache.
Next ==
    \/ \E addresses \in AddressLists : GetBatch(addresses, MaxGets)
    \/ \E address \in Addresses : GetSingle(address, MaxGets)
    \/ CooldownExpires
    \/ Resume
    \/ FetchSucceeds
    \/ FetchFails
    \/ SweepHistory
    \/ SweepCache
    \/ \E d \in Jumps : Advance(d, MaxAdvances)

Spec == Init /\ [][Next]_vars

\* The limiter alone, driven by its direct callers.
NextLimiter ==
    \/ \E url \in DirectUrls, options \in DirectOptions : Request(url, options)
    \/ CooldownExpires
    \/ Resume
    \/ FetchSucceeds
    \/ FetchFails
    \/ SweepHistory
    \/ \E d \in Jumps : Advance(d, MaxAdvances)

SpecLimiter == InitLimiter /\ [][NextLimiter]_vars

\* Concurrent cache calls: more calls, less time.
NextJoin ==
    \/ \E addresses \in AddressLists : GetBatch(addresses, JoinGets)
    \/ \E address \in Addresses : GetSingle(address, JoinGets)
    \/ CooldownExpires
    \/ Resume
    \/ FetchSucceeds
    \/ FetchFails
    \/ \E d \in Jumps : Advance(d, JoinAdvances)

SpecJoin == Init /\ [][NextJoin]_vars

\* A batch that stays in flight beyond the coalescing window: one address list
\* and one single address, more calls and more time.
StaleLists == {<<"0xb", "0xA">>}
StaleSingles == {"0xA"}

NextStale ==
    \/ \E addresses \in StaleLists : GetBatch(addresses, StaleGets)
    \/ \E address \in StaleSingles : GetSingle(address, StaleGets)
    \/ CooldownExpires
    \/ Resume
    \/ FetchSucceeds
    \/ FetchFails
    \/ \E d \in Jumps : Advance(d, StaleAdvances)

SpecStale == Init /\ [][NextStale]_vars

\* The statuses of a response that is not ok, and no response at all.
FailureStatuses == {NetworkError, 401, 403, 429, 500}

\* The network call fails: fetch() rejects, or the response is not ok.
FetchRejected ==
    \E f \in DOMAIN fetches, status \in FailureStatuses : SettleAs(f, status, <<>>)

\* The limiter under direct calls whose network calls fail in every way.
NextErrors ==
    \/ \E url \in DirectUrls, options \in DirectOptions : Request(url, options)
    \/ CooldownExpires
    \/ Resume
    \/ FetchSucceeds
    \/ FetchRejected
    \/ \E d \in Jumps : Advance(d, ErrAdvances)

SpecErrors == Init /\ [][NextErrors]_vars

\* A caller calls searchTokens.
SearchTokens(limit) ==
    /\ Len(gets) < limit
    /\ searchTokens
    /\ UNCHANGED <<now, config, advances, observed>>

\* A caller calls preloadPopularTokens.
PreloadPopularTokens(limit) ==
    /\ Len(gets) < limit
    /\ preloadPopularTokens
    /\ UNCHANGED <<now, config, advances, observed>>

\* The cache with its auxiliary operations, next to a batch that may outlive
\* the coalescing window.
NextAux ==
    \/ \E addresses \in StaleLists : GetBatch(addresses, AuxGets)
    \/ SearchTokens(AuxGets)
    \/ PreloadPopularTokens(AuxGets)
    \/ CooldownExpires
    \/ Resume
    \/ FetchSucceeds
    \/ FetchFails
    \/ \E d \in Jumps : Advance(d, AuxAdvances)

SpecAux == Init /\ [][NextAux]_vars

\* A caller calls getRateLimiterStatus.
GetStatus ==
    /\ getStatus
    /\ UNCHANGED <<now, cacheVars, advances>>

\* A caller calls getTokenCacheStats.
GetCacheStats ==
    /\ getCacheStats
    /\ UNCHANGED <<now, limiterVars, cacheVars, advances>>

\* A caller calls apiRateLimiter.reset().
Reset ==
    /\ reset
    /\ UNCHANGED <<now, cacheVars, advances, observed>>

\* A caller calls apiRateLimiter.clearPendingRequests().
ClearPendingRequests ==
    /\ clearPendingRequests
    /\ UNCHANGED <<now, cacheVars, advances, observed>>

\* The limiter under direct calls and every public operation of its class.
NextAdmin ==
    \/ \E options \in DirectOptions : Request(SearchUrl, options)
    \/ CooldownExpires
    \/ Resume
    \/ FetchSucceeds
    \/ FetchFails
    \/ GetStatus
    \/ Reset
    \/ ClearPendingRequests
    \/ \E d \in Jumps : Advance(d, AdminAdvances)

SpecAdmin == Init /\ [][NextAdmin]_vars

\* The whole stack with status introspection at any point.
NextStats ==
    \/ \E addresses \in StaleLists : GetBatch(addresses, StatGets)
    \/ \E address \in StaleSingles : GetSingle(address, StatGets)
    \/ CooldownExpires
    \/ Resume
    \/ FetchSucceeds
    \/ FetchFails
    \/ GetStatus
    \/ GetCacheStats
    \/ \E d \in Jumps : Advance(d, StatAdvances)

SpecStats == Init /\ [][NextStats]_vars

\* Time passes up to the next timer deadline.
TimerDue ==
    /\ timers # <<>>
    /\ \A i \in DOMAIN timers : timers[i].deadline > now
    /\ now' = Min({timers[i].deadline : i \in DOMAIN timers})
    /\ UNCHANGED <<limiterVars, cacheVars, advances, observed>>

\* The limiter with reset(), on a clock that always reaches the next timer: the
\* event loop runs every timer that is due.
NextCooldown ==
    \/ \E options \in DirectOptions : Request(SearchUrl, options)
    \/ CooldownExpires
    \/ Resume
    \/ FetchSucceeds
    \/ FetchFails
    \/ Reset
    \/ Advance(TickMs, CoolAdvances)
    \/ TimerDue

SpecCooldown ==
    /\ Init
    /\ [][NextCooldown]_vars
    /\ WF_vars(TimerDue)
    /\ WF_vars(CooldownExpires)
    /\ WF_vars(Resume)

\* A burst of request() and getBatchTokenMetadata calls, with timers that
\* fire and network calls that settle.
NextLive ==
    \/ \E options \in DirectOptions : Len(reqs) < LiveCalls /\ Request(SearchUrl, options)
    \/ \E addresses \in StaleLists : Len(reqs) < LiveCalls /\ GetBatch(addresses, LiveGets)
    \/ CooldownExpires
    \/ Resume
    \/ FetchSucceeds
    \/ FetchFails
    \/ TimerDue

SpecLive ==
    /\ Init
    /\ [][NextLive]_vars
    /\ WF_vars(TimerDue)
    /\ WF_vars(CooldownExpires)
    /\ WF_vars(Resume)
    /\ WF_vars(FetchSucceeds \/ FetchFails)

TypeOK ==
    /\ \A k \in DOMAIN pendingRequests : fetches[pendingRequests[k].promise].status = "inflight"
    /\ \A k \in DOMAIN pendingBatchRequests : gets[pendingBatchRequests[k].promise].phase = "awaiting"
    /\ Cardinality({i \in DOMAIN timers : timers[i].kind = "cooldown"}) <= 1

-----------------------------------------------------------------------------
(* Claims about the rate limiter *)

\* C1: at every moment the number of recorded timestamps newer than
\* now - windowMs is at most maxRequests.
SlidingWindowInvariant == InWindow(requestHistory, now) <= config.maxRequests

\* C2: two request() calls with the same signature, the second issued before
\* the first has settled, are served by one network call (and so receive the
\* same value).
DedupInvariant ==
    \A r1 \in DOMAIN reqs, r2 \in DOMAIN reqs :
        ( /\ r1 # r2
          /\ reqs[r1].key = reqs[r2].key
          /\ r1 \in reqs[r2].live
          /\ reqs[r1].promise # NoFetch
          /\ reqs[r2].promise # NoFetch )
        => reqs[r1].promise = reqs[r2].promise

\* C3: any two network calls issued by the limiter start at least cooldownMs
\* apart.
CooldownSpacing ==
    \A i \in DOMAIN fetches, j \in DOMAIN fetches :
        i < j => fetches[j].startedAt - fetches[i].startedAt >= config.cooldownMs

\* The pairs of calls of the cooldown backoff scenario: the first call found the
\* limiter idle, the second is the next call, has another signature and was
\* issued before the first call's cooldown expired.
BackToBack(i) ==
    /\ i + 1 \in DOMAIN reqs
    /\ reqs[i].idle
    /\ reqs[i].key # reqs[i + 1].key
    /\ reqs[i + 1].at < reqs[i].at + config.cooldownMs

\* C4: in the cooldown backoff scenario the second call's fetch starts no
\* earlier than cooldownMs after the first call's fetch started.
CooldownBackoff ==
    \A i \in DOMAIN reqs :
        (BackToBack(i) /\ reqs[i + 1].promise # NoFetch)
        => fetches[reqs[i + 1].promise].startedAt
              >= fetches[reqs[i].promise].startedAt + config.cooldownMs

\* C4 happens: a second call of the scenario, issued after the first, has
\* started its fetch.
CooldownBackoffWitness ==
    \E i \in DOMAIN reqs :
        /\ BackToBack(i)
        /\ reqs[i + 1].at > reqs[i].at
        /\ reqs[i + 1].promise # NoFetch

\* A step in which a request() call finds a pending request with its signature.
JoinStep ==
    /\ Len(reqs') = Len(reqs) + 1
    /\ reqs'[Len(reqs')].key \in DOMAIN pendingRequests

\* C10: a call that finds a pending request with its signature gets that
\* request's promise, is not suspended, and changes nothing of the throttling
\* state: no timestamp, no cooldown, no timer, no network call.
JoinHasNoSideEffect ==
    [][JoinStep =>
          /\ reqs'[Len(reqs')].promise = pendingRequests[reqs'[Len(reqs')].key].promise
          /\ reqs'[Len(reqs')].phase = "awaiting"
          /\ ~reqs'[Len(reqs')].waited
          /\ UNCHANGED <<requestHistory, isCooldown, cooldownTimeout, timers,
                         fetches, pendingRequests>>]_vars

\* C10 happens: a call joined a pending request while the cooldown was active
\* and the window was full.
JoinWitness ==
    \E r \in DOMAIN reqs : reqs[r].joined /\ reqs[r].cool /\ reqs[r].full

-----------------------------------------------------------------------------
(* Claims about the metadata cache *)

Range(s) == {s[i] : i \in DOMAIN s}

\* The makeRequest invocation made by fetchBatchFromAPI for the batch that the
\* cache call g awaits, and the network call it is served by.
RequestOf(g) == CHOOSE r \in DOMAIN reqs : reqs[r].owner = gets[g].batch
FetchOf(g) == reqs[RequestOf(g)].promise

\* C5: of two getBatchTokenMetadata calls with the same non-empty address set,
\* the second made less than the coalescing window after the first and before
\* the first resolves, at most one starts a batch fetch.
BatchCoalescing ==
    \A g1 \in DOMAIN gets, g2 \in DOMAIN gets :
        ( /\ g1 # g2
          /\ gets[g1].op = "batch" /\ gets[g2].op = "batch"
          /\ Range(gets[g1].addrs) = Range(gets[g2].addrs)
          /\ gets[g1].addrs # <<>>
          /\ g1 \in gets[g2].live
          /\ gets[g2].at - gets[g1].at < BATCH_TIMEOUT )
        => ~(gets[g1].role = "create" /\ gets[g2].role = "create")

\* The call g was made with a mix of valid-cached and uncached addresses.
Mixed(g) ==
    /\ gets[g].valid # {}
    /\ \E i \in DOMAIN gets[g].addrs :
          \A rec \in gets[g].valid :
              toLowerCase(rec.address) # toLowerCase(gets[g].addrs[i])

\* C6: the result of a call with a mix of valid-cached and uncached addresses
\* holds every record of the provider's response and every record that was
\* valid in the cache at call time, and no address twice.
PartitionCorrectness ==
    \A g \in DOMAIN gets :
        (Mixed(g) /\ gets[g].phase = "done")
        => /\ gets[g].valid \subseteq Range(gets[g].result)
           /\ Range(fetches[FetchOf(g)].resp) \subseteq Range(gets[g].result)
           /\ \A i \in DOMAIN gets[g].result, j \in DOMAIN gets[g].result :
                 i # j => toLowerCase(gets[g].result[i].address)
                            # toLowerCase(gets[g].result[j].address)

\* The network call f fails in this step.
FailStep(f) == fetches[f].status = "inflight" /\ fetches'[f].status = "err"

\* C7: when the batch fetch fails, every call that depends on it resolves with
\* at least the records that were valid in the cache for its addresses at call
\* time, and the cache is left as it was.
PartialFailureResilience ==
    [][\A f \in DOMAIN fetches :
          FailStep(f) =>
             /\ cache' = cache
             /\ \A g \in DOMAIN gets :
                   (gets[g].phase = "awaiting" /\ FetchOf(g) = f)
                   => /\ gets'[g].phase = "done"
                      /\ gets[g].valid \subseteq Range(gets'[g].result)]_vars

AllCachedStep ==
    /\ Len(gets') = Len(gets) + 1
    /\ gets'[Len(gets')].addrs # <<>>
    /\ \A i \in DOMAIN gets'[Len(gets')].addrs :
          \E rec \in gets'[Len(gets')].valid :
              toLowerCase(rec.address) = toLowerCase(gets'[Len(gets')].addrs[i])

\* C9: a call whose addresses all have a valid cache entry returns exactly the
\* cached records at once, without a network call and without touching the
\* pending-batch map.
AllCachedFastPath ==
    [][AllCachedStep =>
          /\ gets'[Len(gets')].phase = "done"
          /\ gets'[Len(gets')].role \in {"cached", "hit"}
          /\ Range(gets'[Len(gets')].result) = gets'[Len(gets')].valid
          /\ UNCHANGED <<limiterVars, cache, pendingBatchRequests>>]_vars

-----------------------------------------------------------------------------
(* Claims about errors, population and single lookups *)

\* The kind of a response status: 401, 429 and 403 are kinds of their own,
\* every other status is generic.
StatusKind(code) == IF code \in {401, 429, 403} THEN code ELSE 0

\* The makeRequest calls that went to the network themselves.
Originators == {r \in DOMAIN reqs : ~reqs[r].joined /\ reqs[r].promise # NoFetch}

\* C11: when the network call fails or answers with a non-2xx status, the
\* promise of the caller that started it and of every caller that joined it
\* rejects with that call's error; every request went to the network exactly
\* once (no retry); and the errors of two responses whose statuses are of
\* different kinds (401, 429, 403, any other) are of different kinds.
ErrorsPropagate ==
    /\ \A r \in DOMAIN reqs :
          (reqs[r].phase = "done" /\ fetches[reqs[r].promise].status = "err")
          => /\ ~reqs[r].ok
             /\ reqs[r].error # NoError
             /\ reqs[r].error = fetches[reqs[r].promise].error
    /\ Len(fetches) = Cardinality(Originators)
    /\ \A r1 \in Originators, r2 \in Originators :
          r1 # r2 => reqs[r1].promise # reqs[r2].promise
    /\ \A f1 \in DOMAIN fetches, f2 \in DOMAIN fetches :
          ( /\ fetches[f1].status = "err" /\ fetches[f2].status = "err"
            /\ fetches[f1].code # NetworkError /\ fetches[f2].code # NetworkError
            /\ StatusKind(fetches[f1].code) # StatusKind(fetches[f2].code) )
          => fetches[f1].error.text # fetches[f2].error.text

\* C11 happens: a call that joined a pending request was rejected with the
\* error of a 403, and another request failed with a status of the generic
\* kind.
ErrorsPropagateWitness ==
    /\ \E r \in DOMAIN reqs :
          /\ reqs[r].joined /\ reqs[r].phase = "done"
          /\ fetches[reqs[r].promise].code = 403
          /\ reqs[r].error = errorMessage(403)
    /\ \E f \in DOMAIN fetches : fetches[f].status = "err" /\ fetches[f].code = 500

\* The network call f, which a batch created by getBatchTokenMetadata awaits,
\* returns in this step.
PopulateStep(f) ==
    /\ fetches[f].status = "inflight"
    /\ fetches'[f].status = "ok"
    /\ \E g \in DOMAIN gets :
          gets[g].role = "create" /\ gets[g].phase = "awaiting" /\ FetchOf(g) = f

\* C12: when a batch fetch returns, every record of the provider's response
\* is in the cache under its lower-cased address, with creation = the time of
\* the write and expiry = creation + TTL, whatever entry was there before.
CachePopulation ==
    [][\A f \in DOMAIN fetches :
          PopulateStep(f) =>
             \A i \in DOMAIN fetches'[f].resp :
                LET rec == fetches'[f].resp[i]
                    k == toLowerCase(rec.address)
                IN  /\ k \in DOMAIN cache'
                    /\ cache'[k] = [data |-> rec, timestamp |-> now,
                                    expiresAt |-> now + CACHE_DURATION]]_vars

\* C12 happens: a call found an expired entry for one of its addresses, and
\* the entry has been replaced by the record its batch fetch returned.
CachePopulationWitness ==
    \E g \in DOMAIN gets :
        /\ gets[g].role = "create" /\ gets[g].phase = "done"
        /\ \E i \in DOMAIN gets[g].looks :
              LET l == gets[g].looks[i]
                  k == toLowerCase(l.address)
              IN  /\ l.written # -1 /\ ~l.hit
                  /\ k \in DOMAIN cache
                  /\ cache[k].data # l.data
                  /\ cache[k].data \in Range(gets[g].result)
                  /\ cache[k].expiresAt = cache[k].timestamp + CACHE_DURATION
                  /\ cache[k].timestamp >= l.written + CACHE_DURATION

\* The records for the address a in a list of records.
RecordsFor(a, records) ==
    {rec \in Range(records) : toLowerCase(rec.address) = toLowerCase(a)}

\* C13: getTokenMetadata(a) resolves whatever the outcome of the network call,
\* with null or one record, never a record for another address: the cached
\* record when a valid entry exists, the fetched record when the provider's
\* response holds the address, null when the fetch fails or the response omits
\* the address.
GetMetadataResult ==
    \A g \in DOMAIN gets :
        gets[g].op = "single" =>
           LET a == gets[g].addrs[1]
               res == gets[g].result
           IN  /\ gets[g].phase = "awaiting"
                     => \/ FetchOf(g) = NoFetch
                        \/ fetches[FetchOf(g)].status = "inflight"
               /\ gets[g].phase = "done"
                     => /\ Len(res) <= 1
                        /\ Range(res) = RecordsFor(a, res)
                        /\ gets[g].valid # {} => Range(res) = gets[g].valid
                        /\ gets[g].valid = {} =>
                              LET f == fetches[FetchOf(g)]
                              IN  /\ f.status = "err" => res = <<>>
                                  /\ f.status = "ok" =>
                                        Range(res) = RecordsFor(a, f.resp)

\* C13 happens: one getTokenMetadata call joined a pending batch and returned
\* the fetched record, another returned null after its fetch failed.
GetMetadataWitness ==
    /\ \E g \in DOMAIN gets :
          /\ gets[g].op = "single" /\ gets[g].role = "join" /\ gets[g].phase = "done"
          /\ Len(gets[g].result) = 1
          /\ gets[g].result[1] \in Range(fetches[FetchOf(g)].resp)
    /\ \E g \in DOMAIN gets :
          /\ gets[g].op = "single" /\ gets[g].phase = "done"
          /\ gets[g].role = "create"
          /\ fetches[FetchOf(g)].status = "err"
          /\ gets[g].result = <<>>

-----------------------------------------------------------------------------
(* Claims about stale batches, signatures and the empty list *)

\* A step in which getBatchTokenMetadata is called while the BatchRequest
\* stored under its signature is at least BATCH_TIMEOUT old and the call that
\* stored it has not resolved.
StaleArrival ==
    /\ Len(gets') = Len(gets) + 1
    /\ gets'[Len(gets')].op = "batch"
    /\ gets'[Len(gets')].addrs # <<>>
    /\ gets'[Len(gets')].key \in DOMAIN pendingBatchRequests
    /\ now - pendingBatchRequests[gets'[Len(gets')].key].timestamp >= BATCH_TIMEOUT
    /\ gets[pendingBatchRequests[gets'[Len(gets')].key].promise].phase = "awaiting"

\* C14: a getBatchTokenMetadata call that arrives when the pending BatchRequest
\* of its signature is at least the coalescing window old does not join it: it
\* starts a batch fetch of its own and stores a new BatchRequest under the
\* signature.
NoStaleReuse ==
    [][StaleArrival =>
          LET g == Len(gets')
          IN  /\ gets'[g].role = "create"
              /\ gets'[g].batch = g
              /\ \E r \in DOMAIN reqs' \ DOMAIN reqs : reqs'[r].owner = g
              /\ pendingBatchRequests'[gets'[g].key].promise = g
              /\ pendingBatchRequests'[gets'[g].key].timestamp = now]_vars

\* C15: two getBatchTokenMetadata calls whose lists hold the same addresses, in
\* any order and with any repetition, have the same signature, and the later
\* one, made while the earlier one's batch is pending and within the coalescing
\* window, joins it.
SignatureOfSet ==
    \A g1 \in DOMAIN gets, g2 \in DOMAIN gets :
        ( /\ gets[g1].op = "batch" /\ gets[g2].op = "batch"
          /\ gets[g1].addrs # <<>>
          /\ Range(gets[g1].addrs) = Range(gets[g2].addrs) )
        => /\ gets[g1].key = gets[g2].key
           /\ ( /\ g1 < g2 /\ g1 \in gets[g2].live
                /\ gets[g1].role = "create"
                /\ gets[g2].at - gets[g1].at < BATCH_TIMEOUT )
              => gets[g2].role = "join"

\* The uncached address list of the call g: its addresses, in the order the
\* partition loop visits them, that had no valid cache entry when it was made.
UncachedOf(g) ==
    SelectSeq(sort(gets[g].addrs),
              LAMBDA a : \A rec \in gets[g].valid :
                            toLowerCase(rec.address) # toLowerCase(a))

\* C16: of two concurrent getBatchTokenMetadata calls with equal uncached
\* address lists, the later one joins the BatchRequest of the earlier one, even
\* when their full lists differ in addresses that are valid in the cache.
UncachedSignature ==
    \A g1 \in DOMAIN gets, g2 \in DOMAIN gets :
        ( /\ g1 < g2 /\ g1 \in gets[g2].live
          /\ gets[g1].op = "batch" /\ gets[g2].op = "batch"
          /\ gets[g1].role = "create"
          /\ UncachedOf(g1) # <<>>
          /\ UncachedOf(g1) = UncachedOf(g2)
          /\ gets[g2].at - gets[g1].at < BATCH_TIMEOUT )
        => /\ gets[g2].role = "join"
           /\ gets[g2].batch = g1

\* A step in which getBatchTokenMetadata is called with the empty list.
EmptyStep ==
    /\ Len(gets') = Len(gets) + 1
    /\ gets'[Len(gets')].op = "batch"
    /\ gets'[Len(gets')].addrs = <<>>

\* C17: getBatchTokenMetadata([]) resolves to [] at once in every state, makes
\* no network call and leaves the cache, the pending-batch map and the whole
\* state of the rate limiter as they were.
EmptyShortCircuit ==
    [][EmptyStep =>
          /\ gets'[Len(gets')].phase = "done"
          /\ gets'[Len(gets')].result = <<>>
          /\ fetches' = fetches
          /\ UNCHANGED <<limiterVars, cache, pendingBatchRequests>>]_vars

\* C17 happens: the empty list was passed while a batch was pending, a record
\* was in the cache and the limiter was cooling down.
EmptyWitness ==
    \E g \in DOMAIN gets :
        /\ gets[g].op = "batch" /\ gets[g].addrs = <<>>
        /\ gets[g].phase = "done"
        /\ gets[g].at = now
        /\ gets[g].live # {}
        /\ DOMAIN pendingBatchRequests # {}
        /\ DOMAIN cache # {}
        /\ isCooldown

-----------------------------------------------------------------------------
(* Claims about the profile, the auxiliary operations and introspection *)

\* The profile the limiter must have for its credential.
ProfileValues ==
    /\ config.windowMs = 60000
    /\ ~config.hasApiKey => config.maxRequests = 30 /\ config.cooldownMs = 2000
    /\ config.hasApiKey => config.maxRequests = 100 /\ config.cooldownMs = 1000

\* C18: without a credential the limiter's (maxRequests, cooldownMs) is
\* (30, 2000), with a credential (100, 1000), windowMs is 60000 in both, and no
\* request, getStatus, reset, clearPendingRequests or timer changes the profile.
ProfileFixed == []ProfileValues /\ [][config' = config]_vars

\* C18 happens: with a credential, a request was started, reset() emptied the
\* history inside the window, and getStatus reported the profile afterwards.
ProfileFixedWitness ==
    /\ config.hasApiKey
    /\ fetches # <<>>
    /\ now > 0 /\ now < windowMs
    /\ requestHistory = <<>>
    /\ observed.kind = "status"
    /\ observed.requestsInWindow = 0
    /\ observed.maxRequests = 100

\* The searchTokens / preloadPopularTokens calls that await the network call f.
AuxWaiting(f) ==
    {g \in DOMAIN gets : /\ gets[g].role = "aux"
                         /\ gets[g].phase = "awaiting"
                         /\ FetchOf(g) = f}

\* A step in which searchTokens or preloadPopularTokens is called.
AuxCallStep ==
    /\ Len(gets') = Len(gets) + 1
    /\ gets'[Len(gets')].op \in {"search", "preload"}

\* C19: searchTokens and preloadPopularTokens leave the pending-batch map alone
\* when they are called and when they resume; when their network call succeeds
\* every record of the answer is in the cache with a lifetime starting now;
\* when it fails the call resolves (searchTokens with []) and the cache is
\* unchanged.
AuxiliaryOperations ==
    [][/\ AuxCallStep => UNCHANGED <<cache, pendingBatchRequests>>
       /\ \A f \in DOMAIN fetches :
             (fetches[f].status = "inflight" /\ AuxWaiting(f) # {}) =>
                /\ fetches'[f].status # "inflight" =>
                      /\ pendingBatchRequests' = pendingBatchRequests
                      /\ \A g \in AuxWaiting(f) : gets'[g].phase = "done"
                /\ fetches'[f].status = "ok" =>
                      /\ \A rec \in Range(fetches'[f].resp) :
                            /\ toLowerCase(rec.address) \in DOMAIN cache'
                            /\ cache'[toLowerCase(rec.address)] =
                                  [data |-> rec, timestamp |-> now,
                                   expiresAt |-> now + CACHE_DURATION]
                      /\ \A g \in AuxWaiting(f) :
                            gets[g].op = "search" =>
                               gets'[g].result = fetches'[f].resp
                /\ fetches'[f].status = "err" =>
                      /\ cache' = cache
                      /\ \A g \in AuxWaiting(f) : gets'[g].result = <<>>]_vars

\* A step of getRateLimiterStatus or getTokenCacheStats: a value is reported,
\* or nothing else of a step happens (no call, no timer, no settlement, no
\* passage of time).
IntrospectionStep ==
    \/ observed' # observed
    \/ UNCHANGED <<now, gets, reqs, fetches, timers, advances>>

\* C20: a call of getRateLimiterStatus or getTokenCacheStats leaves the cooldown
\* flag, the pending maps, the cache, the timers, every call in progress and
\* the admission decision as they were; of the request history it can only
\* drop the timestamps that are outside the window, so the timestamps inside
\* the window stay the same.
IntrospectionHasNoEffect ==
    [][IntrospectionStep =>
          /\ UNCHANGED <<now, config, pendingRequests, isCooldown, cooldownTimeout,
                         timers, fetches, reqs, cacheVars, advances>>
          /\ requestHistory' \in {requestHistory,
                                  cleanupRequestHistory(requestHistory)}
          /\ cleanupRequestHistory(requestHistory')
                = cleanupRequestHistory(requestHistory)
          /\ canMakeRequest' = canMakeRequest]_vars

\* C20 happens: getStatus dropped the timestamp of a request that had left the
\* window and reported an empty window.
IntrospectionWitness ==
    /\ fetches # <<>>
    /\ now >= windowMs
    /\ requestHistory = <<>>
    /\ observed.kind = "status"
    /\ observed.requestsInWindow = 0
    /\ observed.canMakeRequest
    /\ DOMAIN cache # {}

-----------------------------------------------------------------------------
(* Claims about admission, the cooldown timer and the pending maps *)

\* The request() call r leaves its suspension in this step.
WakeStep(r) == reqs[r].phase = "waiting" /\ reqs'[r].phase # "waiting"

\* What the log of calls says about admission: a call that did not join was
\* suspended iff the cooldown was active or the window was full when it was
\* made; a call that was not suspended issued its network call at once, a
\* suspended one cooldownMs later.
AdmissionLog ==
    \A r \in DOMAIN reqs :
        ~reqs[r].joined =>
           /\ ~reqs[r].waited <=> (~reqs[r].cool /\ ~reqs[r].full)
           /\ ~reqs[r].waited =>
                 /\ reqs[r].promise # NoFetch
                 /\ fetches[reqs[r].promise].startedAt = reqs[r].at
           /\ (reqs[r].waited /\ reqs[r].promise # NoFetch) =>
                 fetches[reqs[r].promise].startedAt = reqs[r].at + config.cooldownMs
           /\ (reqs[r].waited /\ reqs[r].promise = NoFetch) =>
                 /\ reqs[r].phase = "waiting"
                 /\ now <= reqs[r].at + config.cooldownMs

\* C21: a request() call that does not join proceeds without suspension iff no
\* cooldown is active and fewer than maxRequests timestamps are in the window;
\* otherwise it is suspended once, for exactly cooldownMs, and then issues its
\* network call whatever the window and the cooldown flag are by then.
AdmissionRule ==
    /\ []AdmissionLog
    /\ [][\A r \in DOMAIN reqs :
             WakeStep(r) =>
                /\ now = reqs[r].at + config.cooldownMs
                /\ reqs'[r].phase = "awaiting"
                /\ Len(fetches') = Len(fetches) + 1
                /\ reqs'[r].promise = Len(fetches')
                /\ fetches'[Len(fetches')].startedAt = now]_vars

\* C21 happens: a call was suspended because the window was full although no
\* cooldown was active, and two suspended calls issued their network calls at
\* the same instant, the second one under the cooldown of the first.
AdmissionWitness ==
    /\ \E r \in DOMAIN reqs :
          reqs[r].waited /\ reqs[r].full /\ ~reqs[r].cool /\ reqs[r].promise # NoFetch
    /\ \E r1 \in DOMAIN reqs, r2 \in DOMAIN reqs :
          /\ reqs[r1].waited /\ reqs[r2].waited
          /\ reqs[r1].promise # NoFetch /\ reqs[r2].promise # NoFetch
          /\ reqs[r1].promise # reqs[r2].promise
          /\ fetches[reqs[r1].promise].startedAt = fetches[reqs[r2].promise].startedAt

\* The cooldown timers that are armed.
CooldownTimers == {i \in DOMAIN timers : timers[i].kind = "cooldown"}

\* The time the most recent executed request was recorded at, when no reset()
\* has emptied the history since.
LastRecorded == requestHistory[Len(requestHistory)]

\* The flag and the armed timer follow the most recent recorded request: the
\* flag is set before its cooldown has run and clear after, and the only
\* cooldown timer armed is the one of that request; after reset() none is.
CooldownFollowsLatest ==
    /\ requestHistory = <<>> => ~isCooldown /\ CooldownTimers = {}
    /\ requestHistory # <<>> =>
          /\ now < LastRecorded + config.cooldownMs => isCooldown
          /\ now > LastRecorded + config.cooldownMs => ~isCooldown
          /\ isCooldown => CooldownTimers # {}
          /\ \A i \in CooldownTimers :
                timers[i].deadline = LastRecorded + config.cooldownMs

\* C22: with the most recent executed request recorded at t and no reset()
\* since, the cooldown flag is true throughout [t, t + cooldownMs) and becomes
\* false at t + cooldownMs; the timer of an earlier request never clears the
\* cooldown of a later one; and the flag always becomes false again.
CooldownSupersession ==
    /\ []CooldownFollowsLatest
    /\ [][(isCooldown /\ ~isCooldown') =>
             \/ /\ requestHistory' = requestHistory
                /\ now = LastRecorded + config.cooldownMs
             \/ requestHistory' = <<>> /\ cooldownTimeout' = NoTimer]_vars
    /\ (isCooldown ~> ~isCooldown)

\* C22 happens: a request was recorded while the timer of an earlier request
\* was still armed, the deadline of that earlier timer has passed, and the
\* flag is still set for the later request.
CooldownSupersessionWitness ==
    \E i \in DOMAIN fetches, j \in DOMAIN fetches :
        /\ i < j
        /\ requestHistory # <<>>
        /\ Len(requestHistory) = Len(fetches)
        /\ fetches[j].startedAt = LastRecorded
        /\ fetches[i].startedAt < fetches[j].startedAt
        /\ fetches[j].startedAt < fetches[i].startedAt + config.cooldownMs
        /\ now >= fetches[i].startedAt + config.cooldownMs
        /\ now < LastRecorded + config.cooldownMs
        /\ isCooldown

\* A network call is issued in this step.
IssueStep == Len(fetches') = Len(fetches) + 1

\* The network call f settles in this step.
SettleStep(f) == fetches[f].status = "inflight" /\ fetches'[f].status # "inflight"

\* C23: every network call the limiter issues records one timestamp (the time
\* of the call) and arms the cooldown in the step that sends it; no timestamp
\* is recorded otherwise, so as many timestamps are recorded as calls are
\* issued; and when a call settles, with success or failure, its timestamp
\* stays.
OneTimestampPerCall ==
    [][/\ IssueStep =>
             /\ \/ requestHistory' = Append(requestHistory, now)
                \/ requestHistory' = Append(cleanupRequestHistory(requestHistory), now)
             /\ isCooldown'
             /\ cooldownTimeout' = now + config.cooldownMs
             /\ \E i \in DOMAIN timers' :
                   /\ timers'[i].kind = "cooldown"
                   /\ timers'[i].deadline = now + config.cooldownMs
             /\ fetches'[Len(fetches')].startedAt = now
       /\ ~IssueStep =>
             /\ Len(fetches') = Len(fetches)
             /\ requestHistory' \in {requestHistory,
                                     cleanupRequestHistory(requestHistory)}
       /\ \A f \in DOMAIN fetches :
             SettleStep(f) => UNCHANGED <<requestHistory, isCooldown, cooldownTimeout,
                                         timers>>]_vars

\* C23 happens: a network call has failed, another has succeeded, and the
\* timestamps of both are in the history.
OneTimestampWitness ==
    \E f \in DOMAIN fetches, g \in DOMAIN fetches :
        /\ fetches[f].status = "err" /\ fetches[g].status = "ok"
        /\ fetches[f].startedAt # fetches[g].startedAt
        /\ \E i \in DOMAIN requestHistory : requestHistory[i] = fetches[f].startedAt
        /\ \E i \in DOMAIN requestHistory : requestHistory[i] = fetches[g].startedAt
        /\ isCooldown

\* Every request() call made so far has settled.
AllRequestsSettled == \A r \in DOMAIN reqs : reqs[r].phase = "done"

\* C24: when a network call settles, with success or failure, no entry is left
\* under its signature; once every request() call has settled the
\* pending-request map is empty, and getStatus then reports pendingRequests 0.
PendingRequestCleanup ==
    /\ [](AllRequestsSettled => pendingRequests = EmptyMap)
    /\ [][/\ \A f \in DOMAIN fetches :
                SettleStep(f) => fetches[f].key \notin DOMAIN pendingRequests'
          /\ (AllRequestsSettled /\ observed' # observed /\ observed'.kind = "status")
                => observed'.pendingRequests = 0]_vars

\* C24 happens: two suspended calls with one signature each issued a network
\* call, one succeeded and one failed, every call has settled, no reset() was
\* called, and getStatus reported no pending request.
PendingRequestCleanupWitness ==
    /\ AllRequestsSettled
    /\ Len(requestHistory) = Len(fetches)
    /\ observed.kind = "status"
    /\ observed.pendingRequests = 0
    /\ observed.requestsInWindow = Len(fetches)
    /\ \E r1 \in DOMAIN reqs, r2 \in DOMAIN reqs :
          /\ r1 # r2
          /\ reqs[r1].waited /\ reqs[r2].waited
          /\ reqs[r1].key = reqs[r2].key
          /\ reqs[r1].ok /\ ~reqs[r2].ok

\* Every cache call made so far has settled.
AllGetsSettled == \A g \in DOMAIN gets : gets[g].phase = "done"

\* C25: when the call that stored a BatchRequest settles, after a successful or
\* a failed fetch, no entry is left under its signature; once every cache call
\* has settled the pending-batch map is empty, and getCacheStats then reports
\* pendingBatches 0.
BatchRequestCleanup ==
    /\ [](AllGetsSettled => pendingBatchRequests = EmptyMap)
    /\ [][/\ \A g \in DOMAIN gets :
                ( /\ gets[g].role = "create"
                  /\ gets[g].phase = "awaiting"
                  /\ gets'[g].phase = "done" )
                => gets[g].key \notin DOMAIN pendingBatchRequests'
          /\ (AllGetsSettled /\ observed' # observed /\ observed'.kind = "stats")
                => observed'.pendingBatches = 0]_vars

\* C25 happens: a batch replaced a stale one under the same signature, both
\* have settled, one of them after a failed fetch, and getCacheStats reported
\* no pending batch.
BatchRequestCleanupWitness ==
    /\ AllGetsSettled
    /\ observed.kind = "stats"
    /\ observed.pendingBatches = 0
    /\ \E f \in DOMAIN fetches : fetches[f].status = "err"
    /\ \E g1 \in DOMAIN gets, g2 \in DOMAIN gets :
          /\ g1 < g2
          /\ gets[g1].role = "create" /\ gets[g2].role = "create"
          /\ gets[g1].key = gets[g2].key
          /\ g1 \in gets[g2].live

-----------------------------------------------------------------------------
(* Claims about the sweep, the pending entries, starvation and the entries *)

\* The number getCacheStats reports as expiredEntries for the cache c.
expiredEntries(c) == Cardinality({k \in DOMAIN c : ~(now < c[k].expiresAt)})

\* The periodic sweep removes entries in this step.
SweepStep == DOMAIN cache' # DOMAIN cache /\ DOMAIN cache' \subseteq DOMAIN cache

\* C26: a sweep that runs at time t removes every entry that is invalid at t
\* (expiresAt <= t) and no entry that is valid at t, so getCacheStats would
\* report expiredEntries 0 right after it; and it changes nothing but the
\* cache.
CacheSweep ==
    /\ [](/\ \A k \in DOMAIN cache :
                isCacheValid(cache[k]) <=> k \in DOMAIN cleanupExpiredEntries(cache)
          /\ \A k \in DOMAIN cleanupExpiredEntries(cache) :
                cleanupExpiredEntries(cache)[k] = cache[k]
          /\ expiredEntries(cleanupExpiredEntries(cache)) = 0)
    /\ [][SweepStep =>
             /\ cache' = cleanupExpiredEntries(cache)
             /\ UNCHANGED <<now, limiterVars, pendingBatchRequests, gets>>]_vars

\* The network calls in flight.
InFlight == {f \in DOMAIN fetches : fetches[f].status = "inflight"}

\* C27: while a network call for a signature is in flight the pending-request
\* map holds an entry for that signature, so a request() call arriving then
\* with the same signature joins it and issues no network call; the settling of
\* one call never removes the entry of another call that is still in flight.
PendingEntryKept ==
    /\ [](\A f \in InFlight : fetches[f].key \in DOMAIN pendingRequests)
    /\ [][/\ ( /\ Len(reqs') = Len(reqs) + 1
                /\ \E f \in InFlight : fetches[f].key = reqs'[Len(reqs')].key )
              => /\ reqs'[Len(reqs')].joined
                 /\ fetches' = fetches
          /\ \A f \in InFlight :
                SettleStep(f) =>
                   \A f2 \in InFlight \ {f} :
                       fetches[f2].key \in DOMAIN pendingRequests']_vars

\* The call g stored a BatchRequest under a signature that held the entry of
\* an earlier, unresolved call: a replacement batch.
Replacement(g) ==
    /\ gets[g].role = "create"
    /\ \E g1 \in gets[g].live :
          /\ g1 < g
          /\ gets[g1].role = "create"
          /\ gets[g1].key = gets[g].key

\* C28: while a replacement batch is unresolved its entry stays in the
\* pending-batch map, whatever happens to the batch it replaced, and a
\* getBatchTokenMetadata call with its signature that arrives within the
\* coalescing window of the replacement joins it.
ReplacementKeepsEntry ==
    \A g \in DOMAIN gets :
        Replacement(g) =>
           /\ gets[g].phase = "awaiting" =>
                 /\ gets[g].key \in DOMAIN pendingBatchRequests
                 /\ pendingBatchRequests[gets[g].key].promise >= g
           /\ \A g3 \in DOMAIN gets :
                 ( /\ g3 > g /\ g \in gets[g3].live
                   /\ gets[g3].op = "batch"
                   /\ gets[g3].key = gets[g].key
                   /\ gets[g3].at - gets[g].at < BATCH_TIMEOUT )
                 => gets[g3].role = "join"

\* Nobody waits on a promise that cannot settle: an awaited network call is in
\* flight, the call that created an awaited batch is itself unresolved.
AwaitedCanSettle ==
    /\ \A r \in DOMAIN reqs :
          reqs[r].phase = "awaiting" => reqs[r].promise \in InFlight
    /\ \A r \in DOMAIN reqs :
          reqs[r].phase = "waiting" =>
             \E i \in DOMAIN timers : timers[i].kind = "wait" /\ timers[i].id = r
    /\ \A g \in DOMAIN gets :
          gets[g].phase = "awaiting" =>
             /\ gets[gets[g].batch].phase = "awaiting"
             /\ \E r \in DOMAIN reqs :
                   reqs[r].owner = gets[g].batch /\ reqs[r].phase # "done"

\* C29: every request() and getBatchTokenMetadata call eventually settles when
\* timers fire and network calls settle (whatever calls have been made, a
\* moment comes at which all of them have settled); no call is suspended by
\* the cooldown wait a second time; and no call waits on a promise that can
\* never settle.
NoStarvation ==
    /\ []AwaitedCanSettle
    /\ [][\A r \in DOMAIN reqs :
             reqs[r].phase # "waiting" => reqs'[r].phase # "waiting"]_vars
    /\ []<>(AllRequestsSettled /\ AllGetsSettled)

\* C29 happens: in one burst a request() call was suspended, another joined a
\* pending request, a getBatchTokenMetadata call joined a pending batch, and
\* all of them have settled.
NoStarvationWitness ==
    /\ AllRequestsSettled /\ AllGetsSettled
    /\ \E r \in DOMAIN reqs : reqs[r].waited /\ reqs[r].owner = 0
    /\ \E r \in DOMAIN reqs : reqs[r].joined /\ reqs[r].owner = 0
    /\ \E g \in DOMAIN gets : gets[g].role = "join"
    /\ \E f \in DOMAIN fetches : fetches[f].status = "err"

\* C30: in every reachable state each cache entry is stored under the
\* lower-cased address of its record and has expiresAt = timestamp +
\* CACHE_DURATION, and what getCacheStats reports satisfies totalEntries =
\* validEntries + expiredEntries.
CacheWellFormed ==
    /\ \A k \in DOMAIN cache :
          /\ k = toLowerCase(cache[k].data.address)
          /\ cache[k].expiresAt = cache[k].timestamp + CACHE_DURATION
          /\ cache[k].timestamp <= now
    /\ observed.kind = "stats" =>
          observed.totalEntries = observed.validEntries + observed.expiredEntries

\* C30 happens: the record of a mixed-case address is stored under its
\* lower-cased form, written after time 0, and getCacheStats has counted an
\* expired entry next to a valid one.
CacheWellFormedWitness ==
    /\ "0xa" \in DOMAIN cache
    /\ cache["0xa"].data.address = "0xA"
    /\ \E k \in DOMAIN cache : cache[k].timestamp > 0
    /\ observed.kind = "stats"
    /\ observed.expiredEntries > 0
    /\ observed.validEntries > 0

====
